---- MODULE Spec2Model ----
(***************************************************************************)
(* Model of the Amundsen MCP server (src/main.py): five tools, each a      *)
(* composition of one catalog fetch and one normalisation.                 *)
(*                                                                         *)
(* Encoding of Python values:                                              *)
(*   - a scalar read with dict.get(k) is a string, NONE standing for None  *)
(*     (dict.get gives None for a missing key and for a JSON null alike);  *)
(*   - a collection-valued key of a dict is a record [tag, items] with     *)
(*     tag "missing" (no such key), "null" (JSON null) or "list";          *)
(*   - the "error" key of a response is <<>> (no such key) or <<value>>.   *)
(***************************************************************************)
EXTENDS Integers, Sequences, FiniteSets, TLC

VARIABLES pc, tool, args, url, requests, response, result, iters

vars == <<pc, tool, args, url, requests, response, result, iters>>

(* ---- bounds of the model ---- *)
MaxCols == 2
MaxBadges == 2
MaxMarks == 3
MaxOwners == 3
MaxDash == 2
MaxEnt == 1
MaxDepth == 2

(* ---- Python values ---- *)
NONE == "None"

Miss == [tag |-> "missing", items |-> <<>>]

Null == [tag |-> "null", items |-> <<>>]

List(s) == [tag |-> "list", items |-> s]

SeqsUpTo(S, n) == UNION {[1..k -> S] : k \in 0..n}

FieldValues(S, n) == {Miss, Null} \cup {List(s) : s \in SeqsUpTo(S, n)}

\* d.get(k): None when the key is missing
Get(v) == IF v.tag = "missing" THEN Null ELSE v

\* d.get(k, []): the empty list when the key is missing, None when it is null
GetOrEmpty(v) == IF v.tag = "missing" THEN List(<<>>) ELSE v

\* truth value of None / a list
Truthy(v) == v.tag = "list" /\ v.items # <<>>

(* ---- results of a tool ---- *)
Err(msg) == [kind |-> "error", error |-> msg]

Sentinel(text) == [kind |-> "sentinel", text |-> text]

Raised(exc) == [kind |-> "raised", exc |-> exc]

NoResult == [kind |-> "none"]

(* ---- configuration and URLs ---- *)
BASE_URL == "http://localhost:5000"

NoUrl == [base |-> "", database |-> "", schema_name |-> "", table_name |-> "",
          suffix |-> "", depth |-> 0, direction |-> ""]

get_table_url(database, schema_name, table_name) ==
    [base |-> BASE_URL, database |-> database, schema_name |-> schema_name,
     table_name |-> table_name, suffix |-> "", depth |-> 0, direction |-> ""]

lineage_url(base_url, depth, direction) ==
    [base_url EXCEPT !.suffix = "/lineage", !.depth = depth, !.direction = direction]

dashboard_url(base_url) == [base_url EXCEPT !.suffix = "/dashboard/"]

(* ---- raw catalog responses ---- *)
NoResponse == [error |-> <<>>, columns |-> Miss, watermarks |-> Miss, owners |-> Miss,
               dashboards |-> Miss, upstream_entities |-> Miss,
               downstream_entities |-> Miss]

ErrorValues == {"HTTP Error 404: Not Found", "<urlopen error timed out>"}

ErrorKeys == {<<>>} \cup {<<e>> : e \in ErrorValues}

BadgeNames == {"partition column", "Partition Column"}

Badges == {[badge_name |-> b] : b \in BadgeNames}

Columns == {[name |-> n, col_type |-> "int", description |-> "d",
             badges |-> bs] : n \in {"a", "b"}, bs \in FieldValues(Badges, MaxBadges)}

Watermarks == {[watermark_type |-> t, partition_key |-> "dt", partition_value |-> v] :
                  t \in {"low_watermark", "high_watermark", "other"},
                  v \in {"2020-01-01", "2020-12-31"}}

Owners == {[user_id |-> u] : u \in {"a", "b", NONE}}

Dashboards == {[url |-> u, name |-> n, group_name |-> g] :
                  u \in {"u1", "u2"}, n \in {"n1", "n2"}, g \in {"g1", "g2"}}

Entities == {"e1", "e2"}

\* bodies of the metadata endpoint, by the one field a tool reads of them
ColumnsResponses ==
    {[NoResponse EXCEPT !.error = e, !.columns = c] :
        e \in ErrorKeys, c \in FieldValues(Columns, MaxCols)}

WatermarksResponses ==
    {[NoResponse EXCEPT !.error = e, !.watermarks = w] :
        e \in ErrorKeys, w \in FieldValues(Watermarks, MaxMarks)}

OwnersResponses ==
    {[NoResponse EXCEPT !.error = e, !.owners = o] :
        e \in ErrorKeys, o \in FieldValues(Owners, MaxOwners)}

LineageResponses ==
    {[NoResponse EXCEPT !.error = e, !.upstream_entities = u, !.downstream_entities = d] :
        e \in ErrorKeys, u \in FieldValues(Entities, MaxEnt),
        d \in FieldValues(Entities, MaxEnt)}

DashboardResponses ==
    {[NoResponse EXCEPT !.error = e, !.dashboards = d] :
        e \in ErrorKeys, d \in FieldValues(Dashboards, MaxDash)}

(* ---- MetadataProcessor ---- *)
column_info(column) ==
    [name |-> column.name, type |-> column.col_type, description |-> column.description]

\* the loop over a column's badges; acc = [partition_keys, iters]
RECURSIVE badges_loop(_, _, _, _)
badges_loop(badges, j, info, acc) ==
    IF j > Len(badges) THEN acc
    ELSE badges_loop(badges, j + 1, info,
            [partition_keys |->
                IF badges[j].badge_name = "partition column"
                THEN Append(acc.partition_keys, info)
                ELSE acc.partition_keys,
             iters |-> acc.iters + 1])

\* the loop over the columns; acc = [columns, partition_keys, iters, raised]
RECURSIVE columns_loop(_, _, _)
columns_loop(columns, i, acc) ==
    IF i > Len(columns) \/ acc.raised THEN acc
    ELSE LET info == column_info(columns[i])
             badges == GetOrEmpty(columns[i].badges)
             inner == badges_loop(badges.items, 1, info,
                         [partition_keys |-> acc.partition_keys, iters |-> acc.iters + 1])
         IN  columns_loop(columns, i + 1,
                [columns |-> Append(acc.columns, info),
                 partition_keys |-> inner.partition_keys,
                 iters |-> inner.iters,
                 raised |-> badges.tag = "null"])

extract_columns(table_data) ==
    IF table_data.error # <<>>
    THEN [ret |-> Err(table_data.error[1]), iters |-> 0]
    ELSE LET columns == GetOrEmpty(table_data.columns)
             out == columns_loop(columns.items, 1,
                       [columns |-> <<>>, partition_keys |-> <<>>, iters |-> 0,
                        raised |-> columns.tag = "null"])
         IN  IF out.raised
             THEN [ret |-> Raised("TypeError"), iters |-> out.iters]
             ELSE [ret |-> [kind |-> "columns", columns |-> out.columns,
                            partition_keys |-> out.partition_keys],
                   iters |-> out.iters]

\* watermarks_loop with the first entry of a type kept instead of the last
RECURSIVE watermarks_loop_first(_, _, _)
watermarks_loop_first(watermarks, i, acc) ==
    IF i > Len(watermarks) THEN acc
    ELSE LET watermark == watermarks[i]
             entry == [key |-> watermark.partition_key,
                       value |-> watermark.partition_value]
         IN  watermarks_loop_first(watermarks, i + 1,
                [from |-> IF watermark.watermark_type = "low_watermark" /\ acc.from = <<>>
                          THEN <<entry>> ELSE acc.from,
                 to |-> IF watermark.watermark_type = "high_watermark" /\ acc.to = <<>>
                        THEN <<entry>> ELSE acc.to,
                 iters |-> acc.iters + 1])

\* the loop over the watermarks; acc = [from, to, iters], a side being <<>> for None
RECURSIVE watermarks_loop(_, _, _)
watermarks_loop(watermarks, i, acc) ==
    IF i > Len(watermarks) THEN acc
    ELSE LET watermark == watermarks[i]
             entry == [key |-> watermark.partition_key,
                       value |-> watermark.partition_value]
         IN  watermarks_loop(watermarks, i + 1,
                [from |-> IF watermark.watermark_type = "low_watermark"
                          THEN <<entry>> ELSE acc.from,
                 to |-> IF watermark.watermark_type # "low_watermark"
                           /\ watermark.watermark_type = "high_watermark"
                        THEN <<entry>> ELSE acc.to,
                 iters |-> acc.iters + 1])

extract_date_range(table_data) ==
    IF table_data.error # <<>>
    THEN [ret |-> Err(table_data.error[1]), iters |-> 0]
    ELSE LET watermarks == GetOrEmpty(table_data.watermarks)
             date_range == watermarks_loop(watermarks.items, 1,
                              [from |-> <<>>, to |-> <<>>, iters |-> 0])
         IN  IF watermarks.tag = "null"
             THEN [ret |-> Raised("TypeError"), iters |-> 0]
             ELSE IF date_range.from # <<>> \/ date_range.to # <<>>
             THEN [ret |-> [kind |-> "date_range", from |-> date_range.from,
                            to |-> date_range.to],
                   iters |-> date_range.iters]
             ELSE [ret |-> Sentinel("table has no date range"),
                   iters |-> date_range.iters]

\* owners_loop with a user id collected only the first time it is met
RECURSIVE owners_loop_unique(_, _, _)
owners_loop_unique(owners, i, acc) ==
    IF i > Len(owners) THEN acc
    ELSE owners_loop_unique(owners, i + 1,
            IF \E k \in 1..Len(acc) : acc[k] = owners[i].user_id
            THEN acc ELSE Append(acc, owners[i].user_id))

\* the loop over the owners; acc = the user ids collected so far
RECURSIVE owners_loop(_, _, _)
owners_loop(owners, i, acc) ==
    IF i > Len(owners) THEN acc
    ELSE owners_loop(owners, i + 1, Append(acc, owners[i].user_id))

\* extract_owners without its check of the error key
extract_owners_unchecked(table_data) ==
    LET raw == GetOrEmpty(table_data.owners)
        owners == owners_loop(raw.items, 1, <<>>)
    IN  IF raw.tag = "null"
        THEN [ret |-> Raised("TypeError"), iters |-> 0]
        ELSE IF Len(owners) > 0
        THEN [ret |-> [kind |-> "owners", owners |-> owners], iters |-> Len(raw.items)]
        ELSE [ret |-> Sentinel("the table has no owners"), iters |-> Len(raw.items)]

extract_owners(table_data) ==
    IF table_data.error # <<>>
    THEN [ret |-> Err(table_data.error[1]), iters |-> 0]
    ELSE LET raw == GetOrEmpty(table_data.owners)
             owners == owners_loop(raw.items, 1, <<>>)
         IN  IF raw.tag = "null"
             THEN [ret |-> Raised("TypeError"), iters |-> 0]
             ELSE IF Len(owners) > 0
             THEN [ret |-> [kind |-> "owners", owners |-> owners], iters |-> Len(raw.items)]
             ELSE [ret |-> Sentinel("the table has no owners"), iters |-> Len(raw.items)]

(* ---- TableApiClient: what follows the request ---- *)
ValidDirections == {"both", "upstream", "downstream"}

\* lineage_result with `and` for `or` in its test
lineage_result_and(resp) ==
    LET upstream == Get(resp.upstream_entities)
        downstream == Get(resp.downstream_entities)
        lineage == [kind |-> "lineage", upstream |-> upstream, downstream |-> downstream]
    IN  IF Truthy(upstream) /\ Truthy(downstream)
        THEN [ret |-> lineage, iters |-> 0]
        ELSE [ret |-> Sentinel("Table has no lineage"), iters |-> 0]

lineage_result(resp) ==
    LET upstream == Get(resp.upstream_entities)
        downstream == Get(resp.downstream_entities)
        lineage == [kind |-> "lineage", upstream |-> upstream, downstream |-> downstream]
    IN  IF Truthy(upstream) \/ Truthy(downstream)
        THEN [ret |-> lineage, iters |-> 0]
        ELSE [ret |-> Sentinel("Table has no lineage"), iters |-> 0]

\* dashboard_entry with collection_name read from `name`
dashboard_entry_named(raw_dashboard) ==
    [url |-> raw_dashboard.url, dashboard_name |-> raw_dashboard.name,
     collection_name |-> raw_dashboard.name]

dashboard_entry(raw_dashboard) ==
    [url |-> raw_dashboard.url, dashboard_name |-> raw_dashboard.name,
     collection_name |-> raw_dashboard.group_name]

RECURSIVE dashboards_loop(_, _, _)
dashboards_loop(raw_dashboards, i, acc) ==
    IF i > Len(raw_dashboards) THEN acc
    ELSE dashboards_loop(raw_dashboards, i + 1,
            Append(acc, dashboard_entry(raw_dashboards[i])))

dashboards_result(resp) ==
    LET raw_dashboards == Get(resp.dashboards)
        dashboards == dashboards_loop(raw_dashboards.items, 1, <<>>)
    IN  IF raw_dashboards.tag = "null"
        THEN [ret |-> Raised("TypeError"), iters |-> 0]
        ELSE IF Len(dashboards) > 0
        THEN [ret |-> [kind |-> "dashboards", dashboards |-> dashboards],
              iters |-> Len(raw_dashboards.items)]
        ELSE [ret |-> Sentinel("table has no dashboard"), iters |-> 0]

(* ---- the tools: one invocation at a time ---- *)
Tables == {"t1", "t2"}

Depths == 1..MaxDepth

Directions == ValidDirections \cup {"sideways"}

MetadataTools == {"get_table_columns", "get_table_date_range", "get_table_owners"}

NoArgs == [database |-> "", schema_name |-> "", table_name |-> "", depth |-> 0,
           direction |-> ""]

TableArgs(table_name) ==
    [database |-> "hive", schema_name |-> "core", table_name |-> table_name,
     depth |-> 0, direction |-> ""]

Init ==
    /\ pc = "idle"
    /\ tool = ""
    /\ args = NoArgs
    /\ url = NoUrl
    /\ requests = <<>>
    /\ response = NoResponse
    /\ result = NoResult
    /\ iters = 0

\* the tools as the host calls them: the arguments are bound, the client is entered
get_table_columns ==
    /\ pc = "idle"
    /\ \E t \in Tables :
          args' = TableArgs(t)
    /\ tool' = "get_table_columns"
    /\ pc' = "client"
    /\ UNCHANGED <<url, requests, response, result, iters>>

get_table_date_range ==
    /\ pc = "idle"
    /\ \E t \in Tables :
          args' = TableArgs(t)
    /\ tool' = "get_table_date_range"
    /\ pc' = "client"
    /\ UNCHANGED <<url, requests, response, result, iters>>

get_table_owners ==
    /\ pc = "idle"
    /\ \E t \in Tables :
          args' = TableArgs(t)
    /\ tool' = "get_table_owners"
    /\ pc' = "client"
    /\ UNCHANGED <<url, requests, response, result, iters>>

get_table_lineage_info ==
    /\ pc = "idle"
    /\ \E t \in Tables, depth \in Depths, direction \in Directions :
          args' = [TableArgs(t) EXCEPT !.depth = depth, !.direction = direction]
    /\ tool' = "get_table_lineage_info"
    /\ pc' = "client"
    /\ UNCHANGED <<url, requests, response, result, iters>>

get_table_dasboard_info ==
    /\ pc = "idle"
    /\ \E t \in Tables :
          args' = TableArgs(t)
    /\ tool' = "get_table_dasboard_info"
    /\ pc' = "client"
    /\ UNCHANGED <<url, requests, response, result, iters>>

\* TableApiClient.get_metadata up to its request: the table URL
get_metadata ==
    /\ pc = "client"
    /\ tool \in MetadataTools
    /\ url' = get_table_url(args.database, args.schema_name, args.table_name)
    /\ pc' = "request"
    /\ UNCHANGED <<tool, args, requests, response, result, iters>>

\* the check of the direction argument left out
DirectionOk_any(direction) == TRUE

\* the check of the direction argument
DirectionOk(direction) == direction \in ValidDirections

\* TableApiClient.get_lineage up to its request: validation, then the lineage URL
get_lineage ==
    /\ pc = "client"
    /\ tool = "get_table_lineage_info"
    /\ IF ~DirectionOk(args.direction)
       THEN /\ result' = Err("Invalid direction. Must be one of: both, upstream, downstream")
            /\ pc' = "done"
            /\ url' = url
       ELSE /\ url' = lineage_url(
                         get_table_url(args.database, args.schema_name, args.table_name),
                         args.depth, args.direction)
            /\ pc' = "request"
            /\ result' = result
    /\ UNCHANGED <<tool, args, requests, response, iters>>

\* TableApiClient.get_tables_dashboard up to its request: the dashboard URL
get_tables_dashboard ==
    /\ pc = "client"
    /\ tool = "get_table_dasboard_info"
    /\ url' = dashboard_url(get_table_url(args.database, args.schema_name, args.table_name))
    /\ pc' = "request"
    /\ UNCHANGED <<tool, args, requests, response, result, iters>>

\* what the catalog may answer to a request of the tool
Responses(name) ==
    CASE name = "get_table_columns" -> ColumnsResponses
      [] name = "get_table_date_range" -> WatermarksResponses
      [] name = "get_table_owners" -> OwnersResponses
      [] name = "get_table_lineage_info" -> LineageResponses
      [] name = "get_table_dasboard_info" -> DashboardResponses

\* make_request repeating the GET after an {error} answer
make_request_retry ==
    /\ pc = "request"
    /\ requests' = Append(requests, url)
    /\ \/ \E r \in Responses(tool) :
            /\ response' = r
            /\ pc' = IF r.error # <<>> THEN "request" ELSE "process"
            /\ result' = result
       \/ /\ response' = response
          /\ result' = Raised("JSONDecodeError")
          /\ pc' = "done"
    /\ UNCHANGED <<tool, args, url, iters>>

\* AmundsenApiClient.make_request: one GET; the parsed body, or {error: str(e)} on a
\* URLError/HTTPError; a body that is not JSON makes json.loads raise
make_request ==
    /\ pc = "request"
    /\ requests' = Append(requests, url)
    /\ \/ \E r \in Responses(tool) :
            /\ response' = r
            /\ pc' = "process"
            /\ result' = result
       \/ /\ response' = response
          /\ result' = Raised("JSONDecodeError")
          /\ pc' = "done"
    /\ UNCHANGED <<tool, args, url, iters>>

\* what the tool makes of the response
Process(name, resp) ==
    CASE name = "get_table_columns" -> extract_columns(resp)
      [] name = "get_table_date_range" -> extract_date_range(resp)
      [] name = "get_table_owners" -> extract_owners(resp)
      [] name = "get_table_lineage_info" -> lineage_result(resp)
      [] name = "get_table_dasboard_info" -> dashboards_result(resp)

\* the code that follows the request, up to the tool's return value
process ==
    /\ pc = "process"
    /\ result' = Process(tool, response).ret
    /\ iters' = Process(tool, response).iters
    /\ pc' = "done"
    /\ UNCHANGED <<tool, args, url, requests, response>>

\* the tool returns (or its exception reaches the host); its locals are gone
tool_return ==
    /\ pc = "done"
    /\ pc' = "idle"
    /\ tool' = ""
    /\ args' = NoArgs
    /\ url' = NoUrl
    /\ requests' = <<>>
    /\ response' = NoResponse
    /\ result' = NoResult
    /\ iters' = 0

Next ==
    \/ get_table_columns
    \/ get_table_date_range
    \/ get_table_owners
    \/ get_table_lineage_info
    \/ get_table_dasboard_info
    \/ get_metadata
    \/ get_lineage
    \/ get_tables_dashboard
    \/ make_request
    \/ process
    \/ tool_return

Spec == Init /\ [][Next]_vars

(* ---- vocabulary of the properties ---- *)
\* the tool has returned, or raised
Done == pc = "done"

\* the request of this invocation was answered with a response (a dict)
Fetched == pc \in {"process", "done"} /\ Len(requests) = 1 /\ result # Raised("JSONDecodeError")

\* the tool `name` has finished on a fetched response
Finished(name) == Done /\ tool = name /\ Fetched

HasError == response.error # <<>>

\* None, a missing key or an empty list
Falsy(v) == v.tag \in {"missing", "null"} \/ v.items = <<>>

\* a key that is missing or holds a list (not null)
ListOrMissing(v) == v.tag \in {"missing", "list"}

MaxOf(S) == CHOOSE i \in S : \A j \in S : j <= i

(* ---- C1 ---- *)
\* C1: for every tool, an {error} response of the transport yields the structured
\* {error} value carrying that message (no sentinel, no exception), and a sentinel is
\* returned only when the fetch succeeded.
C1_ErrorNeverConflated ==
    (Done /\ Fetched) =>
        /\ HasError => result = Err(response.error[1])
        /\ result.kind = "sentinel" => ~HasError

(* ---- C2 ---- *)
\* C2: on a response with an `error` key, whatever its other keys, extract_columns,
\* extract_date_range and extract_owners return exactly {error: that value} and run
\* no loop body.
C2_ErrorPropagatedUnchanged ==
    (Done /\ Fetched /\ tool \in MetadataTools /\ HasError) =>
        /\ result = Err(response.error[1])
        /\ iters = 0

C2_Witness ==
    /\ Finished("get_table_owners")
    /\ HasError
    /\ Len(response.owners.items) = 2
    /\ result.kind = "error"

(* ---- C3 ---- *)
\* C3: get_table_lineage_info with a direction outside {both, upstream, downstream}
\* returns the validation error and never reaches make_request, whatever the depth
\* and the table; a lineage request is only ever made with a valid direction.
C3_InvalidDirectionNoRequest ==
    (tool = "get_table_lineage_info"
        /\ args.direction \notin {"both", "upstream", "downstream"}) =>
        /\ requests = <<>>
        /\ pc \in {"client", "done"}
        /\ Done => result = Err("Invalid direction. Must be one of: both, upstream, downstream")

C3_Witness ==
    /\ Done
    /\ tool = "get_table_lineage_info"
    /\ args.direction = "sideways"
    /\ args.depth = 2
    /\ args.table_name = "t2"
    /\ result.kind = "error"
    /\ requests = <<>>

(* ---- C4 ---- *)
ColumnSummary(c) == [name |-> c.name, type |-> c.col_type, description |-> c.description]

IsPartitionColumn(c) ==
    /\ c.badges.tag = "list"
    /\ \E j \in 1..Len(c.badges.items) : c.badges.items[j].badge_name = "partition column"

Summaries(cs) == [i \in 1..Len(cs) |-> ColumnSummary(cs[i])]

\* C4: on an error-free response, `columns` holds one summary per input column in
\* source order and `partition_keys` holds, once each and in order, exactly the
\* columns having a badge named "partition column".
C4_PartitionKeysOncePerColumn ==
    (Finished("get_table_columns") /\ ~HasError /\ ListOrMissing(response.columns)
        /\ \A i \in 1..Len(response.columns.items) :
              ListOrMissing(response.columns.items[i].badges)) =>
        /\ result.kind = "columns"
        /\ result.columns = Summaries(response.columns.items)
        /\ result.partition_keys =
              Summaries(SelectSeq(response.columns.items, IsPartitionColumn))

(* ---- C5 ---- *)
LastOfType(ws, type) ==
    LET at == {i \in 1..Len(ws) : ws[i].watermark_type = type}
    IN  IF at = {} THEN <<>>
        ELSE <<[key |-> ws[MaxOf(at)].partition_key,
                value |-> ws[MaxOf(at)].partition_value]>>

\* C5: on an error-free response, `from` is the {key, value} of the last
\* low_watermark entry and `to` that of the last high_watermark entry, a side is
\* null when its type does not occur, other types are ignored, and the sentinel is
\* returned exactly when both sides are null.
C5_LastWatermarkWins ==
    (Finished("get_table_date_range") /\ ~HasError /\ ListOrMissing(response.watermarks)) =>
        LET from == LastOfType(response.watermarks.items, "low_watermark")
            to == LastOfType(response.watermarks.items, "high_watermark")
        IN  IF from = <<>> /\ to = <<>>
            THEN result = Sentinel("table has no date range")
            ELSE result = [kind |-> "date_range", from |-> from, to |-> to]

C5_Witness ==
    /\ Finished("get_table_date_range")
    /\ ~HasError
    /\ Len(response.watermarks.items) = 3
    /\ response.watermarks.items[1].watermark_type = "low_watermark"
    /\ response.watermarks.items[2].watermark_type = "high_watermark"
    /\ response.watermarks.items[3].watermark_type = "low_watermark"
    /\ response.watermarks.items[1].partition_value
          # response.watermarks.items[3].partition_value
    /\ result.kind = "date_range"

(* ---- C6 ---- *)
\* C6: with a valid direction, get_lineage returns the "no lineage" sentinel iff
\* upstream_entities and downstream_entities are both falsy; otherwise it returns
\* {upstream, downstream} with the two raw values (None for a missing key).
C6_LineageSentinelIffBothFalsy ==
    Finished("get_table_lineage_info") =>
        LET both_falsy == Falsy(response.upstream_entities)
                             /\ Falsy(response.downstream_entities)
        IN  /\ result = Sentinel("Table has no lineage") <=> both_falsy
            /\ ~both_falsy =>
                  result = [kind |-> "lineage",
                            upstream |-> Get(response.upstream_entities),
                            downstream |-> Get(response.downstream_entities)]

C6_Witness ==
    /\ Finished("get_table_lineage_info")
    /\ response.upstream_entities.tag = "null"
    /\ response.downstream_entities.items # <<>>
    /\ result.kind = "lineage"

(* ---- C7 ---- *)
\* C7: when the `dashboards` key of the fetched response is absent or null, the
\* dashboards tool returns the "no dashboard" sentinel instead of raising.
C7_MissingDashboardsIsEmpty ==
    (Finished("get_table_dasboard_info") /\ ~HasError
        /\ response.dashboards.tag \in {"missing", "null"}) =>
        result = Sentinel("table has no dashboard")

(* ---- C8 ---- *)
\* C8: on an error-free response, extract_owners returns the user_id of every owner
\* in input order, duplicates kept, and returns the "no owners" sentinel, never an
\* empty list, exactly when `owners` is missing or empty.
C8_OwnersInOrder ==
    (Finished("get_table_owners") /\ ~HasError) =>
        LET owners == response.owners
            empty == owners.tag = "missing" \/ (owners.tag = "list" /\ owners.items = <<>>)
        IN  /\ result = Sentinel("the table has no owners") <=> empty
            /\ (owners.tag = "list" /\ ~empty) =>
                  /\ result.kind = "owners"
                  /\ Len(result.owners) = Len(owners.items)
                  /\ \A i \in 1..Len(owners.items) :
                        result.owners[i] = owners.items[i].user_id
            /\ result.kind = "owners" => result.owners # <<>>

C8_Witness ==
    /\ Finished("get_table_owners")
    /\ ~HasError
    /\ Len(response.owners.items) = 3
    /\ response.owners.items[1].user_id = "b"
    /\ response.owners.items[2].user_id = "a"
    /\ response.owners.items[3].user_id = "b"
    /\ result.kind = "owners"

(* ---- C9 ---- *)
\* C9: for a nonempty dashboards list, get_tables_dashboard returns a list of the
\* same length and order whose entry i is {url, dashboard_name: name,
\* collection_name: group_name} of raw entry i; for an empty list it returns the
\* "no dashboard" sentinel.
C9_DashboardsMapped ==
    (Finished("get_table_dasboard_info") /\ response.dashboards.tag = "list") =>
        LET raw == response.dashboards.items
        IN  IF raw = <<>>
            THEN result = Sentinel("table has no dashboard")
            ELSE /\ result.kind = "dashboards"
                 /\ Len(result.dashboards) = Len(raw)
                 /\ \A i \in 1..Len(raw) :
                       /\ result.dashboards[i].url = raw[i].url
                       /\ result.dashboards[i].dashboard_name = raw[i].name
                       /\ result.dashboards[i].collection_name = raw[i].group_name

C9_Witness ==
    /\ Finished("get_table_dasboard_info")
    /\ Len(response.dashboards.items) = 2
    /\ response.dashboards.items[1] # response.dashboards.items[2]
    /\ result.kind = "dashboards"

(* ---- C10 ---- *)
ArgsValid == tool # "get_table_lineage_info" \/ args.direction \in ValidDirections

\* C10: an invocation makes at most one request, exactly one when its arguments are
\* valid; the request precedes every normalisation step; a failed request is not
\* repeated; the result is the normalisation of the one fetched response; and an
\* invocation leaves nothing behind for the next one.
C10_OneRequestPerInvocation ==
    /\ Len(requests) <= 1
    /\ pc = "process" => Len(requests) = 1 /\ result = NoResult /\ iters = 0
    /\ iters > 0 => Len(requests) = 1
    /\ Done => (Len(requests) = 1 <=> ArgsValid)
    /\ (Done /\ Fetched) => result = Process(tool, response).ret
    /\ HasError => pc \in {"process", "done"}
    /\ pc = "idle" =>
          /\ tool = "" /\ args = NoArgs /\ url = NoUrl /\ requests = <<>>
          /\ response = NoResponse /\ result = NoResult /\ iters = 0

C10_Witness ==
    /\ Done
    /\ Fetched
    /\ HasError
    /\ tool = "get_table_date_range"
    /\ result.kind = "error"
    /\ Len(requests) = 1

====
